---- MODULE Spec2Model ----
(***************************************************************************)
(* Model of api.py: the three-stage pipeline                               *)
(*   get_protein_information -> get_ensembl_gene_ids -> get_gene_data      *)
(* followed by the outer merge and the spreadsheet export of __main__.     *)
(*                                                                         *)
(* A DataFrame is a record [columns, rows]; a row is a function from       *)
(* column names to cell values.  The three web services are the            *)
(* environment: each request nondeterministically succeeds, raises an      *)
(* HTTPError or raises another exception.                                  *)
(***************************************************************************)
EXTENDS Integers, Sequences, FiniteSets, TLC

VARIABLES pc, accessions, i, data, requests1, res1,
          prot_inf_df, k, ensembl_ids, requests2, res2,
          requests3, res3, gene_inf_df, result, file, exitStatus

vars == <<pc, accessions, i, data, requests1, res1,
          prot_inf_df, k, ensembl_ids, requests2, res2,
          requests3, res3, gene_inf_df, result, file, exitStatus>>

\* Longest accession list / table drawn as an input.
MaxLen == 3

\* None / NaN cell value.
Null == "null"

\* An unbound name or a missing file is <<>>, a bound one is <<value>>.
None == <<>>

Some(v) == <<v>>

----------------------------------------------------------------------------
(* Column names *)

KeyCol == "Ensembl Gene ID"

ProteinColumns ==
    {"Protein Accession", "Protein Name", "Gene", "Organism (Scientific)",
     "Organism (Common)", "Molecular Weight (Da)"}

GeneColumns == {KeyCol, "Description", "Seq Region Name"}

----------------------------------------------------------------------------
(* The environment: what the services answer when they answer. *)

BuiltinAccessions == <<"P12345", "Q8N726", "O00255">>

AccessionSet == {BuiltinAccessions[n] : n \in 1..Len(BuiltinAccessions)}

\* The UniProt record of an accession (the fields the code extracts).  The
\* mass is an opaque JSON value the code copies unchanged.
UniProtJson(accession) ==
    CASE accession = "P12345" ->
           [fullName |-> "Aspartate aminotransferase, mitochondrial",
            gene |-> "GOT2", names0 |-> "Oryctolagus cuniculus",
            names1 |-> "Rabbit", mass |-> "47409"]
      [] accession = "Q8N726" ->
           [fullName |-> "Tumor suppressor ARF",
            gene |-> "CDKN2A", names0 |-> "Homo sapiens",
            names1 |-> "Human", mass |-> "13903"]
      [] OTHER ->
           [fullName |-> "Menin",
            gene |-> "MEN1", names0 |-> "Homo sapiens",
            names1 |-> "Human", mass |-> "68023"]

\* str.lower() on the organism names that occur.
Lower(species) ==
    CASE species = "Homo sapiens" -> "homo sapiens"
      [] species = "Oryctolagus cuniculus" -> "oryctolagus cuniculus"
      [] OTHER -> species

\* Gene identifiers, in lexicographic order.
GeneIdSet == {"A", "B", "C", "D"}

\* response_json[0]["id"] of the xrefs/symbol service.
XrefJson(species, gene) ==
    CASE species = "oryctolagus cuniculus" /\ gene = "GOT2" -> "A"
      [] species = "homo sapiens" /\ gene = "CDKN2A" -> "B"
      [] species = "homo sapiens" /\ gene = "MEN1" -> "C"
      [] OTHER -> "D"

\* response_json[id] of the lookup/id service, for an id that is a key.
LookupJson(id) ==
    [description |-> "description of " \o id,
     seq_region_name |-> "region of " \o id]

\* Outcome of one GET: success, HTTPError, or any other exception.
Outcomes == {"ok", "http", "other"}

\* Outcome of the POST: on success the set of keys of the response object.
Responses ==
    [status : {"ok"}, keys : SUBSET GeneIdSet]
      \cup [status : {"http", "other"}, keys : {{}}]

----------------------------------------------------------------------------
(* pandas *)

\* pd.DataFrame(list of dicts): no rows gives no columns.
DataFrame(rows) ==
    [columns |-> IF rows = <<>> THEN {} ELSE DOMAIN rows[1], rows |-> rows]

\* df[col].tolist()
Column(df, col) == [n \in 1..Len(df.rows) |-> df.rows[n][col]]

\* df[col] = values, for len(values) = len(df)
SetColumn(df, col, values) ==
    [columns |-> df.columns \cup {col},
     rows |-> [n \in 1..Len(df.rows) |-> (col :> values[n]) @@ df.rows[n]]]

\* Join keys in the order an outer merge sorts them (missing keys last).
KeyOrder == <<"A", "B", "C", "D", Null>>

NullRow(cols) == [c \in cols |-> Null]

RowsWithKey(df, key) == SelectSeq(df.rows, LAMBDA r : r[KeyCol] = key)

\* An inner join: only the pairings, a row without a partner is dropped.
InnerBlock(left, right, key) ==
    LET L == RowsWithKey(left, key)
        R == RowsWithKey(right, key)
    IN [n \in 1..(Len(L) * Len(R)) |->
            L[((n - 1) \div Len(R)) + 1] @@ R[((n - 1) % Len(R)) + 1]]

\* The merged rows of one join key: every pairing of the left and right rows
\* that carry it; a row without a partner is kept, filled with nulls.
MergeBlock(left, right, key) ==
    LET L == RowsWithKey(left, key)
        R == RowsWithKey(right, key)
    IN IF R = <<>>
       THEN [n \in 1..Len(L) |-> L[n] @@ NullRow(right.columns \ {KeyCol})]
       ELSE IF L = <<>>
       THEN [n \in 1..Len(R) |-> R[n] @@ NullRow(left.columns \ {KeyCol})]
       ELSE [n \in 1..(Len(L) * Len(R)) |->
                L[((n - 1) \div Len(R)) + 1] @@ R[((n - 1) % Len(R)) + 1]]

RECURSIVE MergeRows(_, _, _)
MergeRows(left, right, n) ==
    IF n > Len(KeyOrder) THEN <<>>
    ELSE MergeBlock(left, right, KeyOrder[n]) \o MergeRows(left, right, n + 1)

\* left.merge(right, how="outer", on="Ensembl Gene ID"), both frames having
\* the key column.
Merge(left, right) ==
    [columns |-> left.columns \cup right.columns,
     rows |-> MergeRows(left, right, 1)]

----------------------------------------------------------------------------
(* Stage 1: get_protein_information *)

\* The dict built from a successful response.
ProteinInfo(accession) ==
    LET response_json == UniProtJson(accession)
    IN  ("Protein Accession" :> accession)
        @@ ("Protein Name" :> response_json.fullName)
        @@ ("Gene" :> response_json.gene)
        @@ ("Organism (Scientific)" :> response_json.names0)
        @@ ("Organism (Common)" :> response_json.names1)
        @@ ("Molecular Weight (Da)" :> response_json.mass)

\* A failed accession that leaves a placeholder row behind.
Stage1DataPlaceholder(d, accession, outcome) ==
    IF outcome = "ok" THEN Append(d, ProteinInfo(accession))
    ELSE Append(d, ("Protein Accession" :> accession)
                     @@ NullRow(ProteinColumns))

\* data after one iteration: append on success, both handlers only print.
Stage1Data(d, accession, outcome) ==
    IF outcome = "ok" THEN Append(d, ProteinInfo(accession)) ELSE d

\* A loop that stops at the first failure.
Stage1BreakOnFailure(n, len, outcome) ==
    IF outcome = "ok" THEN n + 1 ELSE len + 1

\* The for loop moves to the next accession whatever the outcome.
Stage1NextIndex(n, len, outcome) == n + 1

Stage1Lookup ==
    /\ pc = "stage1"
    /\ i <= Len(accessions)
    /\ \E outcome \in Outcomes :
         /\ requests1' = Append(requests1, accessions[i])
         /\ res1' = Append(res1, outcome)
         /\ data' = Stage1Data(data, accessions[i], outcome)
         /\ i' = Stage1NextIndex(i, Len(accessions), outcome)
    /\ UNCHANGED <<pc, accessions, prot_inf_df, k, ensembl_ids, requests2,
                   res2, requests3, res3, gene_inf_df, result, file,
                   exitStatus>>

Stage1Return ==
    /\ pc = "stage1"
    /\ i > Len(accessions)
    /\ prot_inf_df' = DataFrame(data)
    /\ pc' = "stage2"
    /\ UNCHANGED <<accessions, i, data, requests1, res1, k, ensembl_ids,
                   requests2, res2, requests3, res3, gene_inf_df, result,
                   file, exitStatus>>

----------------------------------------------------------------------------
(* Stage 2: get_ensembl_gene_ids *)

\* An uncaught exception: traceback, interpreter exit status 1.
Raise ==
    /\ pc' = "raised"
    /\ exitStatus' = Some(1)

\* zip(df["Organism (Scientific)"], df["Gene"]): KeyError on a frame that
\* lacks the columns.
Stage2Begin ==
    /\ pc = "stage2"
    /\ IF {"Organism (Scientific)", "Gene"} \subseteq prot_inf_df.columns
       THEN pc' = "stage2loop" /\ UNCHANGED exitStatus
       ELSE Raise
    /\ UNCHANGED <<accessions, i, data, requests1, res1, prot_inf_df, k,
                   ensembl_ids, requests2, res2, requests3, res3,
                   gene_inf_df, result, file>>

\* ensembl_ids after one iteration: append on success, handlers only print.
Stage2Ids(ids, species, gene, outcome) ==
    IF outcome = "ok" THEN Append(ids, XrefJson(Lower(species), gene))
    ELSE ids

Stage2Lookup ==
    /\ pc = "stage2loop"
    /\ k <= Len(prot_inf_df.rows)
    /\ LET species == prot_inf_df.rows[k]["Organism (Scientific)"]
           gene == prot_inf_df.rows[k]["Gene"]
       IN \E outcome \in Outcomes :
            /\ requests2' = Append(requests2, <<Lower(species), gene>>)
            /\ res2' = Append(res2, outcome)
            /\ ensembl_ids' = Stage2Ids(ensembl_ids, species, gene, outcome)
    /\ k' = k + 1
    /\ UNCHANGED <<pc, accessions, i, data, requests1, res1, prot_inf_df,
                   requests3, res3, gene_inf_df, result, file, exitStatus>>

\* df["Ensembl Gene ID"] = ensembl_ids: ValueError unless the list is as
\* long as the frame.
Stage2Assign ==
    /\ pc = "stage2loop"
    /\ k > Len(prot_inf_df.rows)
    /\ IF Len(ensembl_ids) = Len(prot_inf_df.rows)
       THEN /\ prot_inf_df' = SetColumn(prot_inf_df, KeyCol, ensembl_ids)
            /\ pc' = "stage3"
            /\ UNCHANGED exitStatus
       ELSE Raise /\ UNCHANGED prot_inf_df
    /\ UNCHANGED <<accessions, i, data, requests1, res1, k, ensembl_ids,
                   requests2, res2, requests3, res3, gene_inf_df, result,
                   file>>

----------------------------------------------------------------------------
(* Stage 3: get_gene_data *)

\* A row whose description was lost.
GeneDataNoDescription(ensembl_id) ==
    (KeyCol :> ensembl_id)
    @@ ("Description" :> Null)
    @@ ("Seq Region Name" :> LookupJson(ensembl_id).seq_region_name)

\* The dict built for one identifier that is a key of the response.
GeneData(ensembl_id) ==
    (KeyCol :> ensembl_id)
    @@ ("Description" :> LookupJson(ensembl_id).description)
    @@ ("Seq Region Name" :> LookupJson(ensembl_id).seq_region_name)

\* Number of identifiers the loop of lines 116-119 gets through before
\* response_json[ensembl_id] raises KeyError (a key that is missing; null is
\* never a key).
Looked(ids, response) ==
    IF \A n \in 1..Len(ids) : ids[n] \in response.keys
    THEN Len(ids)
    ELSE (CHOOSE n \in 1..Len(ids) :
            /\ ids[n] \notin response.keys
            /\ \A m \in 1..(n - 1) : ids[m] \in response.keys) - 1

\* data when the try block is left, normally or by an exception.
GeneDataList(ids, response) ==
    IF response.status = "ok"
    THEN [n \in 1..Looked(ids, response) |-> GeneData(ids[n])]
    ELSE <<>>

\* Handlers that print and fall through to the return statement.
FallThrough(ids, response) == TRUE

\* Whether get_gene_data reaches its return statement: the call succeeded
\* and no lookup in the response raised.  Otherwise a handler runs sys.exit().
Returns(ids, response) ==
    /\ response.status = "ok"
    /\ Looked(ids, response) = Len(ids)

\* The call of line 139 as a whole; sys.exit() without an argument ends the
\* process with status 0.
GetGeneData ==
    /\ pc = "stage3"
    /\ LET ids == Column(prot_inf_df, KeyCol)
       IN \E response \in Responses :
            /\ requests3' = Append(requests3, ids)
            /\ res3' = Some(response)
            /\ IF Returns(ids, response)
               THEN /\ gene_inf_df' = Some(DataFrame(GeneDataList(ids, response)))
                    /\ pc' = "merge"
                    /\ UNCHANGED exitStatus
               ELSE /\ pc' = "exited"
                    /\ exitStatus' = Some(0)
                    /\ UNCHANGED gene_inf_df
    /\ UNCHANGED <<accessions, i, data, requests1, res1, prot_inf_df, k,
                   ensembl_ids, requests2, res2, result, file>>

----------------------------------------------------------------------------
(* Merge and export *)

\* prot_inf_df.merge(gene_inf_df, how="outer", on="Ensembl Gene ID"):
\* KeyError when a frame lacks the key column.
MergeStep ==
    /\ pc = "merge"
    /\ IF KeyCol \in prot_inf_df.columns /\ KeyCol \in gene_inf_df[1].columns
       THEN /\ result' = Some(Merge(prot_inf_df, gene_inf_df[1]))
            /\ pc' = "export"
            /\ UNCHANGED exitStatus
       ELSE Raise /\ UNCHANGED result
    /\ UNCHANGED <<accessions, i, data, requests1, res1, prot_inf_df, k,
                   ensembl_ids, requests2, res2, requests3, res3,
                   gene_inf_df, file>>

\* result.to_excel(outfile, index=False), then the script ends.
Export ==
    /\ pc = "export"
    /\ file' = result
    /\ pc' = "done"
    /\ exitStatus' = Some(0)
    /\ UNCHANGED <<accessions, i, data, requests1, res1, prot_inf_df, k,
                   ensembl_ids, requests2, res2, requests3, res3,
                   gene_inf_df, result>>

----------------------------------------------------------------------------
(* Specifications *)

RECURSIVE SeqsUpTo(_, _)
SeqsUpTo(S, n) ==
    IF n = 0 THEN {<<>>}
    ELSE LET shorter == SeqsUpTo(S, n - 1)
         IN shorter \cup {Append(q, x) : q \in shorter, x \in S}

\* A spreadsheet left behind by an earlier run.
StaleFile == [columns |-> {"stale"}, rows |-> <<>>]

\* The state common to every start: nothing requested, nothing bound.
Fresh ==
    /\ requests1 = <<>> /\ res1 = <<>>
    /\ requests2 = <<>> /\ res2 = <<>>
    /\ requests3 = <<>> /\ res3 = None
    /\ result = None
    /\ file \in {None, Some(StaleFile)}
    /\ exitStatus = None

\* The script, run on any short accession list or on the built-in one.
Init ==
    /\ pc = "stage1"
    /\ accessions \in SeqsUpTo(AccessionSet, MaxLen) \cup {BuiltinAccessions}
    /\ i = 1 /\ data = <<>>
    /\ prot_inf_df = DataFrame(<<>>)
    /\ k = 1 /\ ensembl_ids = <<>>
    /\ gene_inf_df = None
    /\ Fresh

Next ==
    \/ Stage1Lookup
    \/ Stage1Return
    \/ Stage2Begin
    \/ Stage2Lookup
    \/ Stage2Assign
    \/ GetGeneData
    \/ MergeStep
    \/ Export

Spec == Init /\ [][Next]_vars

\* Cross-reference tables with an arbitrary identifier column.
XrefRows(ids) ==
    {ProteinInfo(a) @@ (KeyCol :> id) : a \in {"P12345", "Q8N726"}, id \in ids}

XrefTables(ids) ==
    {[columns |-> ProteinColumns \cup {KeyCol}, rows |-> rs] :
        rs \in SeqsUpTo(XrefRows(ids), MaxLen)}

\* get_gene_data handed the identifier column of any cross-reference table,
\* nulls included.
InitGene ==
    /\ pc = "stage3"
    /\ accessions = <<>> /\ i = 1 /\ data = <<>>
    /\ prot_inf_df \in XrefTables(GeneIdSet \cup {Null})
    /\ k = 1 /\ ensembl_ids = <<>>
    /\ gene_inf_df = None
    /\ Fresh

NextGene == GetGeneData \/ MergeStep \/ Export

SpecGene == InitGene /\ [][NextGene]_vars

\* One cross-reference row per identifier, for the merge's inputs.
MergeLeftRows ==
    {ProteinInfo(IF id \in {"A", Null} THEN "P12345" ELSE "Q8N726")
        @@ (KeyCol :> id) : id \in GeneIdSet \cup {Null}}

\* The merge applied to any cross-reference table and any annotation table.
InitMerge ==
    /\ pc = "merge"
    /\ accessions = <<>> /\ i = 1 /\ data = <<>>
    /\ prot_inf_df \in
         {[columns |-> ProteinColumns \cup {KeyCol}, rows |-> rs] :
             rs \in SeqsUpTo(MergeLeftRows, MaxLen)}
    /\ k = 1 /\ ensembl_ids = <<>>
    /\ gene_inf_df \in
         {Some([columns |-> GeneColumns, rows |-> rs]) :
             rs \in SeqsUpTo({GeneData(id) : id \in GeneIdSet}, MaxLen)}
    /\ Fresh

NextMerge == MergeStep \/ Export

SpecMerge == InitMerge /\ [][NextMerge]_vars

----------------------------------------------------------------------------
(* Properties *)

Ids(df) == {df.rows[n][KeyCol] : n \in 1..Len(df.rows)}

AllOk(res, len) == Len(res) = len /\ \A n \in 1..Len(res) : res[n] = "ok"

NonNull(df) ==
    \A n \in 1..Len(df.rows) : \A c \in df.columns : df.rows[n][c] # Null

Distinct(q) == \A m, n \in 1..Len(q) : m # n => q[m] # q[n]

Stage1Over == pc # "stage1"

Stage2Over == pc \notin {"stage1", "stage2", "stage2loop"}

\* The rows expected of the first Len(res) accessions: one per success.
RECURSIVE Successes(_, _)
Successes(accs, res) ==
    IF res = <<>> THEN <<>>
    ELSE LET n == Len(res)
             before == Successes(accs, SubSeq(res, 1, n - 1))
         IN IF res[n] = "ok" THEN Append(before, ProteinInfo(accs[n]))
            ELSE before

\* C1: the table of get_protein_information holds exactly one row for each
\* accession whose lookup succeeded and none for one that failed, in input
\* order; its length is the number of successes, at most the input length.
C1_OneRowPerSuccess ==
    /\ data = Successes(accessions, res1)
    /\ Len(data) = Cardinality({n \in 1..Len(res1) : res1[n] = "ok"})
    /\ Len(data) <= Len(accessions)
    /\ Stage1Over =>
         /\ Len(res1) = Len(accessions)
         /\ Len(prot_inf_df.rows) = Len(data)
         /\ \A n \in 1..Len(data) : \A c \in ProteinColumns :
               prot_inf_df.rows[n][c] = data[n][c]

C1_Witness ==
    /\ pc = "stage2"
    /\ Len(accessions) = 3
    /\ accessions[1] = accessions[3]
    /\ res1 = <<"ok", "http", "ok">>
    /\ Len(prot_inf_df.rows) = 2

\* C2: a failure at one position neither ends the loop nor is retried: the
\* requests issued are the input, position by position, and each step of the
\* loop requests the current accession and changes data by that lookup's
\* own outcome only.
C2_OneRequestPerPosition ==
    /\ [](/\ Len(requests1) = Len(res1)
          /\ requests1 = SubSeq(accessions, 1, Len(requests1))
          /\ pc = "stage1" => Len(requests1) = i - 1
          /\ Stage1Over => requests1 = accessions)
    /\ [][(pc = "stage1" /\ i <= Len(accessions)) =>
            /\ pc' = "stage1"
            /\ i' = i + 1
            /\ requests1' = Append(requests1, accessions[i])
            /\ data' = IF res1'[i] = "ok"
                       THEN Append(data, ProteinInfo(accessions[i]))
                       ELSE data]_vars

C2_Witness ==
    /\ pc = "stage2"
    /\ res1 = <<"other", "ok", "http">>
    /\ requests1 = accessions
    /\ Len(data) = 1

\* C3: get_ensembl_gene_ids returns its N rows, row k carrying the
\* identifier of its own lookup, or null when that lookup failed.
C3_RowAligned ==
    (Stage2Over /\ Len(res2) >= 1) =>
        /\ pc # "raised"
        /\ Len(prot_inf_df.rows) = Len(res2)
        /\ \A n \in 1..Len(res2) :
              prot_inf_df.rows[n][KeyCol] =
                 IF res2[n] = "ok"
                 THEN XrefJson(Lower(data[n]["Organism (Scientific)"]),
                               data[n]["Gene"])
                 ELSE Null

\* The batched call raised, or a lookup in its response did.
Stage3Failed ==
    /\ res3 # None
    /\ \/ res3[1].status # "ok"
       \/ \E n \in 1..Len(requests3[1]) : requests3[1][n] \notin res3[1].keys

Written == file \notin {None, Some(StaleFile)}

\* C4: once the batched call has failed no annotation table is returned,
\* nothing is merged and the spreadsheet is left as it was; the export is
\* only reached after a successful call.
C4_NoExportAfterFailure ==
    /\ Stage3Failed =>
         /\ pc = "exited"
         /\ gene_inf_df = None
         /\ result = None
         /\ ~Written
    /\ (pc \in {"export", "done"} \/ Written) =>
         /\ res3 # None
         /\ res3[1].status = "ok"

C4_Witness ==
    /\ pc = "exited"
    /\ res3 # None
    /\ res3[1].status = "http"
    /\ file = Some(StaleFile)

\* C5: a failed batched call ends the program with a non-zero exit status.
C5_NonZeroExit ==
    Stage3Failed => (exitStatus # None /\ exitStatus # Some(0))

AllSucceeded ==
    /\ pc = "done"
    /\ AllOk(res1, Len(accessions))
    /\ AllOk(res2, Len(accessions))

AllColumnsFilled ==
    /\ file[1].columns = ProteinColumns \cup GeneColumns
    /\ NonNull(file[1])

\* C6 (as stated): when every lookup and the batched call succeed, the
\* exported table has as many rows as there are accessions, all cells
\* non-null.
C6_RowPerAccession ==
    AllSucceeded =>
        /\ Len(file[1].rows) = Len(accessions)
        /\ AllColumnsFilled

\* C6 (amended): the same, for accession lists whose derived identifiers
\* are pairwise distinct.
C6_RowPerAccessionDistinct ==
    (AllSucceeded /\ Distinct(ensembl_ids)) =>
        /\ Len(file[1].rows) = Len(accessions)
        /\ AllColumnsFilled

C6_Witness ==
    /\ AllSucceeded
    /\ accessions = BuiltinAccessions
    /\ Len(file[1].rows) = 3

\* C7: the merge is a full outer join on the identifier: the identifiers of
\* the result are those of either table, every pairing of equal keys is a
\* row, a row without a partner is kept with the other side's columns null,
\* and there are no other rows.
C7_OuterJoin ==
    result # None =>
        LET L == prot_inf_df.rows
            R == gene_inf_df[1].rows
            M == {result[1].rows[n] : n \in 1..Len(result[1].rows)}
            LOnly == NullRow(GeneColumns \ {KeyCol})
            ROnly == NullRow(ProteinColumns)
        IN /\ Ids(result[1]) = Ids(prot_inf_df) \cup Ids(gene_inf_df[1])
           /\ \A m \in 1..Len(L) : \A n \in 1..Len(R) :
                 L[m][KeyCol] = R[n][KeyCol] => (L[m] @@ R[n]) \in M
           /\ \A m \in 1..Len(L) :
                 L[m][KeyCol] \notin Ids(gene_inf_df[1])
                    => (L[m] @@ LOnly) \in M
           /\ \A n \in 1..Len(R) :
                 R[n][KeyCol] \notin Ids(prot_inf_df)
                    => (R[n] @@ ROnly) \in M
           /\ \A row \in M :
                 \/ \E m \in 1..Len(L) : \E n \in 1..Len(R) :
                       L[m][KeyCol] = R[n][KeyCol] /\ row = L[m] @@ R[n]
                 \/ \E m \in 1..Len(L) : row = L[m] @@ LOnly
                 \/ \E n \in 1..Len(R) : row = R[n] @@ ROnly
           /\ (Ids(prot_inf_df) = {"A", "B", "C"}
                 /\ Ids(gene_inf_df[1]) = {"B", "C", "D"})
                => Ids(result[1]) = {"A", "B", "C", "D"}

C7_Witness ==
    /\ pc = "export"
    /\ Ids(prot_inf_df) = {"A", "B", "C"}
    /\ Ids(gene_inf_df[1]) = {"B", "C", "D"}
    /\ Ids(result[1]) = {"A", "B", "C", "D"}
    /\ Len(result[1].rows) = 4

\* C8: the request body holds only the non-null identifiers, the annotation
\* table has no row with a null identifier, and a null entry does not by
\* itself make the stage fail.
C8_NullsNotSubmitted ==
    res3 # None =>
        LET ids == Column(prot_inf_df, KeyCol)
            valid == SelectSeq(ids, LAMBDA id : id # Null)
        IN /\ requests3 = <<valid>>
           /\ gene_inf_df # None => Null \notin Ids(gene_inf_df[1])
           /\ (res3[1].status = "ok"
                 /\ \A n \in 1..Len(valid) : valid[n] \in res3[1].keys)
                => gene_inf_df # None

\* C9: a successful batched call is the only request and returns one row for
\* each submitted identifier that is a key of the response, in submission
\* order; an identifier that is not a key just contributes no row.
C9_RowPerKey ==
    (res3 # None /\ res3[1].status = "ok") =>
        LET ids == requests3[1]
            found == SelectSeq(ids, LAMBDA id : id \in res3[1].keys)
        IN /\ Len(requests3) = 1
           /\ gene_inf_df # None
           /\ gene_inf_df[1].rows = [n \in 1..Len(found) |-> GeneData(found[n])]

\* C10: on a non-empty accession list, no pattern of failures in stages 1
\* and 2 ends the run with an uncaught error; the run always gets to the
\* batched call.
C10_NoUncaughtError ==
    Len(accessions) >= 1 =>
        /\ pc # "raised"
        /\ Stage2Over => pc \in {"stage3", "merge", "export", "done", "exited"}

====
